---- MODULE Spec2Model ----
(***************************************************************************)
(* Deferred Acceptance - Single Tie Break matcher (src/src/da_stb.rs) and  *)
(* its data model (src/src/lib.rs).                                        *)
(*                                                                         *)
(* A Category is a record [name, max_placements]; categories compare by    *)
(* name only (lib.rs:326-330), so the entries of a preference queue and of *)
(* an exclude vector are modelled by the category name.  A Student is a    *)
(* record [name, preferences, exclude]; an OrderedStudent carries `order`  *)
(* as well.  A HashMap<String, Vec<..>> is a function whose DOMAIN is the  *)
(* set of keys present.  Student names are the integers 1..NumStudents.    *)
(***************************************************************************)
EXTENDS Integers, Sequences, FiniteSets, TLC

\* ---------------------------------------------------------------- bounds
NumStudents == 2
MaxPlacements == 2

\* usize::MAX (da_stb.rs:102); the model's integers are 32 bits wide, the
\* value only has to exceed every sum of capacities.
UsizeMax == 2147483647

VARIABLES
    mode,                       \* which public function the caller invoked
    pc,                         \* position in the running function
    in_students,                \* the caller's student vector
    in_categories,              \* the caller's category vector
    students,                   \* `students` of the running call / orchestrator
    categories,                 \* `categories` (the orchestrator's working clone)
    spots_available,
    previous_spots_available,
    first_round,
    match_result,               \* the orchestrator's aggregate MatchResult
    new_match_result,           \* the MatchResult the last match_students call returned
    unplaced_students,
    placed,
    not_placable,
    still_not_placable,
    rounds,                     \* history: number of completed orchestrator rounds
    rng_calls,                  \* history: uses of rng by the running match_students call
    evictions,                  \* history: who truncate_categories removed from where
    previous_placed             \* history: `placed` at the end of the last iteration

vars == <<mode, pc, in_students, in_categories, students, categories,
          spots_available, previous_spots_available, first_round,
          match_result, new_match_result, unplaced_students, placed,
          not_placable, still_not_placable, rounds, rng_calls, evictions,
          previous_placed>>

\* ------------------------------------------------------------ data model
ListedNames == {"Cooking", "Reading"}
\* "Walking" can be named by a preference although it is not in the
\* category vector handed to the matcher.
PreferenceNames == ListedNames \cup {"Walking"}

EmptyMap == [k \in {} |-> <<>>]

Contains(vec, x) == \E i \in 1..Len(vec) : vec[i] = x

Names(vec) == {vec[i].name : i \in 1..Len(vec)}

\* HashMap::get(..).unwrap_or(&Vec::new())
GetOrEmpty(map, key) == IF key \in DOMAIN map THEN map[key] ELSE <<>>

\* placed.get_mut(name) push / insert(name, vec![student])
PushTo(map, key, x) ==
    [k \in DOMAIN map \cup {key} |->
        IF k = key THEN Append(GetOrEmpty(map, key), x) ELSE map[k]]

RECURSIVE SumPlacements(_)
SumPlacements(cats) ==
    IF cats = <<>> THEN 0
    ELSE Head(cats).max_placements + SumPlacements(Tail(cats))

\* impl From<OrderedStudent> for Student
StudentFrom(os) ==
    [name |-> os.name, preferences |-> os.preferences, exclude |-> os.exclude]

\* MatchResult::from
MatchResultFrom(pl, np) ==
    [placed |-> [k \in DOMAIN pl |->
                    [i \in 1..Len(pl[k]) |-> StudentFrom(pl[k][i])]],
     not_placable |-> [i \in 1..Len(np) |-> StudentFrom(np[i])]]

EmptyResult == [placed |-> EmptyMap, not_placable |-> <<>>]

\* Vec::sort on OrderedStudent: a stable sort by `order` (lib.rs:272-276).
RECURSIVE InsertOrdered(_, _)
InsertOrdered(sorted, s) ==
    IF sorted = <<>> THEN <<s>>
    ELSE IF s.order < Head(sorted).order THEN <<s>> \o sorted
         ELSE <<Head(sorted)>> \o InsertOrdered(Tail(sorted), s)

RECURSIVE SortOrdered(_)
SortOrdered(vec) ==
    IF vec = <<>> THEN <<>>
    ELSE InsertOrdered(SortOrdered(SubSeq(vec, 1, Len(vec) - 1)), vec[Len(vec)])

\* ------------------------------------------------------------ draw_order
Permutations1(n) ==
    {p \in [1..n -> 1..n] : \A i, j \in 1..n : p[i] = p[j] => i = j}

\* every outcome of students.shuffle(&mut rng)
Shuffles(vec) ==
    {[i \in 1..Len(vec) |-> vec[p[i]]] : p \in Permutations1(Len(vec))}

\* draw_order that counts the positions from one
draw_order_one_based(shuffled) ==
    [i \in 1..Len(shuffled) |->
        [name |-> shuffled[i].name,
         preferences |-> shuffled[i].preferences,
         exclude |-> shuffled[i].exclude,
         order |-> i]]

draw_order(shuffled) ==
    [i \in 1..Len(shuffled) |->
        [name |-> shuffled[i].name,
         preferences |-> shuffled[i].preferences,
         exclude |-> shuffled[i].exclude,
         order |-> i - 1]]

\* -------------------------------------------------------- place_students
\* place_student that forgets a student whose popped preference is excluded
place_student_drops_excluded(acc, student) ==
    IF student.preferences # <<>>
    THEN LET category == Head(student.preferences)
             popped == [student EXCEPT !.preferences = Tail(@)]
         IN  IF Contains(popped.exclude, category)
             THEN acc
             ELSE [acc EXCEPT !.placed = PushTo(@, category, popped)]
    ELSE [acc EXCEPT !.not_placable = Append(@, student)]

\* place_student that reads the front preference without popping it
place_student_peeks(acc, student) ==
    IF student.preferences # <<>>
    THEN LET category == Head(student.preferences)
         IN  IF Contains(student.exclude, category)
             THEN [acc EXCEPT !.not_placable = Append(@, student)]
             ELSE [acc EXCEPT !.placed = PushTo(@, category, student)]
    ELSE [acc EXCEPT !.not_placable = Append(@, student)]

\* place_student that moves on to the next preference when the popped one
\* is excluded
place_student_skips_excluded(acc, student) ==
    IF student.preferences # <<>>
    THEN LET category == Head(student.preferences)
             popped == [student EXCEPT !.preferences = Tail(@)]
         IN  IF Contains(popped.exclude, category)
             THEN IF /\ popped.preferences # <<>>
                     /\ ~Contains(popped.exclude, Head(popped.preferences))
                  THEN [acc EXCEPT !.placed =
                           PushTo(@, Head(popped.preferences),
                                  [popped EXCEPT !.preferences = Tail(@)])]
                  ELSE [acc EXCEPT !.not_placable = Append(@, popped)]
             ELSE [acc EXCEPT !.placed = PushTo(@, category, popped)]
    ELSE [acc EXCEPT !.not_placable = Append(@, student)]

\* place_student that also proposes to the second preference
place_student_proposes_twice(acc, student) ==
    IF student.preferences # <<>>
    THEN LET category == Head(student.preferences)
             popped == [student EXCEPT !.preferences = Tail(@)]
         IN  IF Contains(popped.exclude, category)
             THEN [acc EXCEPT !.not_placable = Append(@, popped)]
             ELSE IF /\ popped.preferences # <<>>
                     /\ Head(popped.preferences) # category
                     /\ ~Contains(popped.exclude, Head(popped.preferences))
                  THEN [acc EXCEPT !.placed =
                           PushTo(PushTo(@, category, popped),
                                  Head(popped.preferences), popped)]
                  ELSE [acc EXCEPT !.placed = PushTo(@, category, popped)]
    ELSE [acc EXCEPT !.not_placable = Append(@, student)]

\* the body of the for loop; acc = [placed, not_placable]
place_student(acc, student) ==
    IF student.preferences # <<>>
    THEN LET category == Head(student.preferences)
             popped == [student EXCEPT !.preferences = Tail(@)]
         IN  IF Contains(popped.exclude, category)
             THEN [acc EXCEPT !.not_placable = Append(@, popped)]
             ELSE [acc EXCEPT !.placed = PushTo(@, category, popped)]
    ELSE [acc EXCEPT !.not_placable = Append(@, student)]

RECURSIVE place_students(_, _, _)
place_students(unplaced, pl, np) ==
    IF unplaced = <<>> THEN [placed |-> pl, not_placable |-> np]
    ELSE LET acc == place_student([placed |-> pl, not_placable |-> np],
                                  Head(unplaced))
         IN  place_students(Tail(unplaced), acc.placed, acc.not_placable)

\* ---------------------------------------------------- truncate_categories
\* truncate_category that drains one position too late
truncate_category_keeps_one_more(acc, category) ==
    IF /\ category.name \in DOMAIN acc.placed
       /\ Len(acc.placed[category.name]) > category.max_placements
    THEN LET sorted == SortOrdered(acc.placed[category.name])
         IN  [placed |-> [acc.placed EXCEPT ![category.name] =
                             SubSeq(sorted, 1, category.max_placements + 1)],
              unplaced_students |-> acc.unplaced_students \o
                  SubSeq(sorted, category.max_placements + 2, Len(sorted))]
    ELSE acc

\* truncate_category that keeps the students with the highest order
truncate_category_keeps_worst(acc, category) ==
    IF /\ category.name \in DOMAIN acc.placed
       /\ Len(acc.placed[category.name]) > category.max_placements
    THEN LET sorted == SortOrdered(acc.placed[category.name])
             cut == Len(sorted) - category.max_placements
         IN  [placed |-> [acc.placed EXCEPT ![category.name] =
                             SubSeq(sorted, cut + 1, Len(sorted))],
              unplaced_students |-> acc.unplaced_students \o
                  SubSeq(sorted, 1, cut)]
    ELSE acc

\* truncate_category without the sort of line 290
truncate_category_unsorted(acc, category) ==
    IF /\ category.name \in DOMAIN acc.placed
       /\ Len(acc.placed[category.name]) > category.max_placements
    THEN LET held == acc.placed[category.name]
         IN  [placed |-> [acc.placed EXCEPT ![category.name] =
                             SubSeq(held, 1, category.max_placements)],
              unplaced_students |-> acc.unplaced_students \o
                  SubSeq(held, category.max_placements + 1, Len(held))]
    ELSE acc

\* truncate_category that sorts every list, over capacity or not
truncate_category_always_sorts(acc, category) ==
    IF category.name \in DOMAIN acc.placed
    THEN LET sorted == SortOrdered(acc.placed[category.name])
             keep == IF Len(sorted) > category.max_placements
                     THEN category.max_placements ELSE Len(sorted)
         IN  [placed |-> [acc.placed EXCEPT ![category.name] =
                             SubSeq(sorted, 1, keep)],
              unplaced_students |-> acc.unplaced_students \o
                  SubSeq(sorted, keep + 1, Len(sorted))]
    ELSE acc

\* the body of the for loop; acc = [placed, unplaced_students]
truncate_category(acc, category) ==
    IF /\ category.name \in DOMAIN acc.placed
       /\ Len(acc.placed[category.name]) > category.max_placements
    THEN LET sorted == SortOrdered(acc.placed[category.name])
         IN  [placed |-> [acc.placed EXCEPT ![category.name] =
                             SubSeq(sorted, 1, category.max_placements)],
              unplaced_students |-> acc.unplaced_students \o
                  SubSeq(sorted, category.max_placements + 1, Len(sorted))]
    ELSE acc

RECURSIVE TruncateFrom(_, _)
TruncateFrom(acc, cats) ==
    IF cats = <<>> THEN acc
    ELSE TruncateFrom(truncate_category(acc, Head(cats)), Tail(cats))

truncate_categories(pl, cats) ==
    TruncateFrom([placed |-> pl, unplaced_students |-> <<>>], cats)

\* ---------------------------------------------------------- assign_random
\* the filter without its exclude clause
IsOpen_ignores_exclude(c, student, pl) ==
    Len(GetOrEmpty(pl, c.name)) < c.max_placements

\* the capacity filter off by one: the last place is never given out
IsOpen_leaves_one_free(c, student, pl) ==
    /\ Len(GetOrEmpty(pl, c.name)) + 1 < c.max_placements
    /\ ~Contains(student.exclude, c.name)

\* the two filters of lines 315-322
IsOpen(c, student, pl) ==
    /\ Len(GetOrEmpty(pl, c.name)) < c.max_placements
    /\ ~Contains(student.exclude, c.name)

open_categories(student, pl, cats) ==
    SelectSeq(cats, LAMBDA c : IsOpen(c, student, pl))

\* open_categories.iter().choose(&mut rng), line 325: the index of the chosen
\* category, 0 for None; the call is made whether or not there is a candidate
choose(candidates) ==
    IF candidates = <<>> THEN {0} ELSE 1..Len(candidates)

\* ------------------------------------- match_students_to_multiple_categories
RECURSIVE ExcludePlaced(_, _, _)
\* for ps in placed_students { for student in students.filter(name == ps.name)
\*     { student.exclude.push(category.clone()) } }
ExcludePlaced(studs, placed_students, cname) ==
    IF placed_students = <<>> THEN studs
    ELSE ExcludePlaced(
            [j \in 1..Len(studs) |->
                IF studs[j].name = Head(placed_students).name
                THEN [studs[j] EXCEPT !.exclude = Append(@, cname)]
                ELSE studs[j]],
            Tail(placed_students), cname)

\* merge_category without `student.exclude.push(category.clone())`
merge_category_no_exclude(acc, i, new_placed) ==
    LET category == acc.categories[i] IN
    IF category.name \in DOMAIN new_placed
    THEN LET placed_students == new_placed[category.name] IN
         [categories |-> [acc.categories EXCEPT ![i].max_placements =
                             @ - Len(placed_students)],
          students |-> acc.students,
          match_result |-> [acc.match_result EXCEPT !.placed =
              [k \in DOMAIN @ \cup {category.name} |->
                  IF k = category.name
                  THEN GetOrEmpty(@, k) \o placed_students
                  ELSE @[k]]]]
    ELSE acc

\* merge_category without `category.max_placements -= placed_students.len()`
merge_category_no_decrement(acc, i, new_placed) ==
    LET category == acc.categories[i] IN
    IF category.name \in DOMAIN new_placed
    THEN LET placed_students == new_placed[category.name] IN
         [categories |-> acc.categories,
          students |-> ExcludePlaced(acc.students, placed_students, category.name),
          match_result |-> [acc.match_result EXCEPT !.placed =
              [k \in DOMAIN @ \cup {category.name} |->
                  IF k = category.name
                  THEN GetOrEmpty(@, k) \o placed_students
                  ELSE @[k]]]]
    ELSE acc

\* the body of `for category in categories.iter_mut()` for the i-th category;
\* acc = [categories, students, match_result]
merge_category(acc, i, new_placed) ==
    LET category == acc.categories[i] IN
    IF category.name \in DOMAIN new_placed
    THEN LET placed_students == new_placed[category.name] IN
         [categories |-> [acc.categories EXCEPT ![i].max_placements =
                             @ - Len(placed_students)],
          students |-> ExcludePlaced(acc.students, placed_students, category.name),
          match_result |-> [acc.match_result EXCEPT !.placed =
              [k \in DOMAIN @ \cup {category.name} |->
                  IF k = category.name
                  THEN GetOrEmpty(@, k) \o placed_students
                  ELSE @[k]]]]
    ELSE acc

RECURSIVE MergeFrom(_, _, _)
MergeFrom(acc, i, new_placed) ==
    IF i > Len(acc.categories) THEN acc
    ELSE MergeFrom(merge_category(acc, i, new_placed), i + 1, new_placed)

merge_round(cats, studs, mr, new_placed) ==
    MergeFrom([categories |-> cats, students |-> studs, match_result |-> mr],
              1, new_placed)

\* the loop condition without its progress test
spots_left_ignores_progress(spots, previous) == spots > 0

\* the loop test that lets only the first round through
spots_left_first_round_only(spots, previous) ==
    spots > 0 /\ previous = UsizeMax

\* the while condition of line 106
spots_left(spots, previous) == spots > 0 /\ previous > spots

\* ------------------------------------------------------------------ inputs
RECURSIVE SeqsUpTo(_, _)
SeqsUpTo(S, n) ==
    IF n = 0 THEN {<<>>}
    ELSE LET shorter == SeqsUpTo(S, n - 1)
         IN  shorter \cup {Append(q, x) : q \in shorter, x \in S}

\* Preference queues: every queue over the listed categories with at most
\* as many entries as there are listed categories (a category may be named
\* twice), and one that names a category missing from the category vector.
PreferenceChoices ==
    SeqsUpTo(ListedNames, Cardinality(ListedNames)) \cup {<<"Walking">>}

\* Exclude lists: none, one listed category, every listed category.
ExcludeChoices == {<<>>, <<"Cooking">>, <<"Cooking", "Reading">>}

RECURSIVE PreferenceKey(_)
PreferenceKey(q) ==
    IF q = <<>> THEN 0
    ELSE (CASE Head(q) = "Cooking" -> 1
            [] Head(q) = "Reading" -> 2
            [] OTHER -> 3) + 4 * PreferenceKey(Tail(q))

StudentKey(s) == 3 * PreferenceKey(s.preferences) + Len(s.exclude)

\* shuffle (draw_order) discards the order of the caller's vector and the
\* orchestrator finds students by name, so the vectors are listed up to
\* reordering: one vector per multiset of students.  A student that excludes
\* every listed category is given the empty preference queue.
StudentVectors ==
    {v \in {[i \in 1..NumStudents |->
                [name |-> i, preferences |-> pr[i], exclude |-> ex[i]]] :
                pr \in [1..NumStudents -> PreferenceChoices],
                ex \in [1..NumStudents -> ExcludeChoices]} :
        /\ \A i \in 1..(NumStudents - 1) : StudentKey(v[i]) <= StudentKey(v[i + 1])
        /\ \A i \in 1..NumStudents :
              Len(v[i].exclude) = Cardinality(ListedNames) => v[i].preferences = <<>>}

CategoryVectors ==
    {<<[name |-> "Cooking", max_placements |-> a],
       [name |-> "Reading", max_placements |-> b]>> :
        a \in 0..MaxPlacements, b \in 0..MaxPlacements}

\* ------------------------------------------------------------------- Init
InitInputs ==
    /\ in_students \in StudentVectors
    /\ in_categories \in CategoryVectors
    /\ students = in_students
    /\ categories = in_categories
    /\ unplaced_students = <<>>
    /\ placed = EmptyMap
    /\ not_placable = <<>>
    /\ still_not_placable = <<>>
    /\ new_match_result = EmptyResult
    /\ match_result = EmptyResult
    /\ rounds = 0
    /\ rng_calls = <<>>
    /\ evictions = {}
    /\ previous_placed = EmptyMap

\* the caller invokes match_students
Init ==
    /\ InitInputs
    /\ mode = "match_students"
    /\ pc = "draw_order"
    /\ spots_available = 0
    /\ previous_spots_available = 0
    /\ first_round = FALSE

\* the data of get_data(3, 2, 1) in tests/da_stb.rs
ExampleCategories ==
    <<[name |-> "Cooking", max_placements |-> 3],
      [name |-> "Reading", max_placements |-> 2],
      [name |-> "Walking", max_placements |-> 1]>>

ExampleStudents ==
    <<[name |-> "Bert", preferences |-> <<"Cooking", "Reading", "Walking">>,
       exclude |-> <<>>],
      [name |-> "Suze", preferences |-> <<"Walking", "Cooking">>,
       exclude |-> <<>>],
      [name |-> "Kate", preferences |-> <<"Walking", "Reading">>,
       exclude |-> <<>>],
      [name |-> "Harry", preferences |-> <<"Walking">>,
       exclude |-> <<"Cooking">>],
      [name |-> "Lisa", preferences |-> <<>>, exclude |-> <<>>]>>

\* test_match_students: the caller invokes match_students on that data
InitExample ==
    /\ in_students = ExampleStudents
    /\ in_categories = ExampleCategories
    /\ students = in_students
    /\ categories = in_categories
    /\ unplaced_students = <<>>
    /\ placed = EmptyMap
    /\ not_placable = <<>>
    /\ still_not_placable = <<>>
    /\ new_match_result = EmptyResult
    /\ match_result = EmptyResult
    /\ rounds = 0
    /\ rng_calls = <<>>
    /\ evictions = {}
    /\ previous_placed = EmptyMap
    /\ mode = "match_students"
    /\ pc = "draw_order"
    /\ spots_available = 0
    /\ previous_spots_available = 0
    /\ first_round = FALSE

\* the caller invokes match_students_to_multiple_categories, lines 96-103
InitMulti ==
    /\ InitInputs
    /\ mode = "match_students_to_multiple_categories"
    /\ pc = "while_spots"
    /\ spots_available = SumPlacements(in_categories)
    /\ previous_spots_available = UsizeMax
    /\ first_round = TRUE

\* ---------------------------------------------------------------- actions
multiVars == <<students, categories, spots_available, previous_spots_available,
               first_round, match_result, rounds>>
inputVars == <<mode, in_students, in_categories>>
historyVars == <<rng_calls, evictions, previous_placed>>

\* draw_order that numbers the students as they come, without the shuffle
DrawOrder_unshuffled ==
    /\ pc = "draw_order"
    /\ unplaced_students' = draw_order(students)
    /\ not_placable' = <<>>
    /\ placed' = EmptyMap
    /\ rng_calls' = <<>>
    /\ evictions' = {}
    /\ previous_placed' = EmptyMap
    /\ pc' = "while_unplaced"
    /\ UNCHANGED <<inputVars, multiVars, new_match_result, still_not_placable>>

\* match_students, line 227
DrawOrder ==
    /\ pc = "draw_order"
    /\ \E shuffled \in Shuffles(students) :
          unplaced_students' = draw_order(shuffled)
    /\ not_placable' = <<>>
    /\ placed' = EmptyMap
    /\ rng_calls' = <<[op |-> "shuffle", candidates |-> Len(students)]>>
    /\ evictions' = {}
    /\ previous_placed' = EmptyMap
    /\ pc' = "while_unplaced"
    /\ UNCHANGED <<inputVars, multiVars, new_match_result, still_not_placable>>

\* match_students, lines 232-233
PlaceStudents ==
    /\ pc = "while_unplaced"
    /\ unplaced_students # <<>>
    /\ LET r == place_students(unplaced_students, placed, not_placable)
       IN  /\ placed' = r.placed
           /\ not_placable' = r.not_placable
    /\ unplaced_students' = <<>>
    /\ pc' = "truncate"
    /\ UNCHANGED <<inputVars, historyVars, multiVars, new_match_result,
                   still_not_placable>>

\* the students that are in a list of `before` and not in that list of `after`
Removed(before, after) ==
    UNION {{[name |-> x.name, category |-> k] :
                x \in {before[k][i] : i \in 1..Len(before[k])} \
                      {after[k][i] : i \in 1..Len(after[k])}} :
           k \in DOMAIN before}

\* match_students, line 234
TruncateCategories ==
    /\ pc = "truncate"
    /\ LET r == truncate_categories(placed, categories)
       IN  /\ placed' = r.placed
           /\ unplaced_students' = r.unplaced_students
           /\ evictions' = evictions \cup Removed(placed, r.placed)
           /\ previous_placed' = r.placed
    /\ pc' = "while_unplaced"
    /\ UNCHANGED <<inputVars, multiVars, new_match_result, not_placable,
                   still_not_placable, rng_calls>>

\* assign_random without the sort of line 308
AssignRandomSort_unsorted ==
    /\ pc = "while_unplaced"
    /\ unplaced_students = <<>>
    /\ not_placable' = not_placable
    /\ still_not_placable' = <<>>
    /\ pc' = "assign_for"
    /\ UNCHANGED <<inputVars, historyVars, multiVars, new_match_result, placed,
                   unplaced_students>>

\* loop exit, then assign_random lines 307-310
AssignRandomSort ==
    /\ pc = "while_unplaced"
    /\ unplaced_students = <<>>
    /\ not_placable' = SortOrdered(not_placable)
    /\ still_not_placable' = <<>>
    /\ pc' = "assign_for"
    /\ UNCHANGED <<inputVars, historyVars, multiVars, new_match_result, placed,
                   unplaced_students>>

\* one iteration of the for loop of assign_random, lines 312-333
AssignRandomStep ==
    /\ pc = "assign_for"
    /\ not_placable # <<>>
    /\ LET student == Head(not_placable)
           open == open_categories(student, placed, categories)
       IN  /\ rng_calls' = Append(rng_calls,
                                  [op |-> "choose", candidates |-> Len(open)])
           /\ \E chosen \in choose(open) :
                 IF chosen # 0
                 THEN /\ placed' = PushTo(placed, open[chosen].name, student)
                      /\ UNCHANGED still_not_placable
                 ELSE /\ still_not_placable' =
                            Append(still_not_placable, student)
                      /\ UNCHANGED placed
    /\ not_placable' = Tail(not_placable)
    /\ UNCHANGED <<inputVars, multiVars, new_match_result, unplaced_students,
                   pc, evictions, previous_placed>>

\* assign_random returns, match_students line 240
MatchStudentsReturn ==
    /\ pc = "assign_for"
    /\ not_placable = <<>>
    /\ new_match_result' = MatchResultFrom(placed, still_not_placable)
    /\ placed' = EmptyMap
    /\ still_not_placable' = <<>>
    /\ rng_calls' = <<>>
    /\ evictions' = {}
    /\ previous_placed' = EmptyMap
    /\ pc' = IF mode = "match_students" THEN "done" ELSE "merge"
    /\ UNCHANGED <<inputVars, multiVars, unplaced_students, not_placable>>

\* match_students_to_multiple_categories, lines 106-107
WhileSpots ==
    /\ pc = "while_spots"
    /\ spots_left(spots_available, previous_spots_available)
    /\ pc' = "draw_order"
    /\ UNCHANGED <<inputVars, historyVars, multiVars, new_match_result, unplaced_students,
                   placed, not_placable, still_not_placable>>

\* the merge that copies not_placable after every round
MergeRound_always_overwrites ==
    /\ pc = "merge"
    /\ LET r == merge_round(categories, students, match_result,
                            new_match_result.placed)
       IN  /\ categories' = r.categories
           /\ students' = r.students
           /\ match_result' =
                [r.match_result EXCEPT
                    !.not_placable = new_match_result.not_placable]
           /\ spots_available' = SumPlacements(r.categories)
    /\ first_round' = FALSE
    /\ previous_spots_available' = spots_available
    /\ new_match_result' = EmptyResult
    /\ rounds' = rounds + 1
    /\ pc' = "while_spots"
    /\ UNCHANGED <<inputVars, historyVars, unplaced_students, placed, not_placable,
                   still_not_placable>>

\* the merge that decrements the caller's vector, not a clone of it
MergeRound_writes_through ==
    /\ pc = "merge"
    /\ LET r == merge_round(categories, students, match_result,
                            new_match_result.placed)
       IN  /\ categories' = r.categories
           /\ in_categories' = r.categories
           /\ students' = r.students
           /\ match_result' =
                IF first_round
                THEN [r.match_result EXCEPT
                        !.not_placable = new_match_result.not_placable]
                ELSE r.match_result
           /\ spots_available' = SumPlacements(r.categories)
    /\ first_round' = FALSE
    /\ previous_spots_available' = spots_available
    /\ new_match_result' = EmptyResult
    /\ rounds' = rounds + 1
    /\ pc' = "while_spots"
    /\ UNCHANGED <<mode, in_students, historyVars, unplaced_students, placed, not_placable,
                   still_not_placable>>

\* the merge that takes the students the round left unplaced out of the
\* vector passed to the next round
MergeRound_drops_unplaced ==
    /\ pc = "merge"
    /\ LET r == merge_round(categories, students, match_result,
                            new_match_result.placed)
       IN  /\ categories' = r.categories
           /\ students' =
                SelectSeq(r.students,
                          LAMBDA s : s.name \notin
                                         Names(new_match_result.not_placable))
           /\ match_result' =
                IF first_round
                THEN [r.match_result EXCEPT
                        !.not_placable = new_match_result.not_placable]
                ELSE r.match_result
           /\ spots_available' = SumPlacements(r.categories)
    /\ first_round' = FALSE
    /\ previous_spots_available' = spots_available
    /\ new_match_result' = EmptyResult
    /\ rounds' = rounds + 1
    /\ pc' = "while_spots"
    /\ UNCHANGED <<inputVars, historyVars, unplaced_students, placed, not_placable,
                   still_not_placable>>

\* match_students_to_multiple_categories, lines 110-145
MergeRound ==
    /\ pc = "merge"
    /\ LET r == merge_round(categories, students, match_result,
                            new_match_result.placed)
       IN  /\ categories' = r.categories
           /\ students' = r.students
           /\ match_result' =
                IF first_round
                THEN [r.match_result EXCEPT
                        !.not_placable = new_match_result.not_placable]
                ELSE r.match_result
           /\ spots_available' = SumPlacements(r.categories)
    /\ first_round' = FALSE
    /\ previous_spots_available' = spots_available
    /\ new_match_result' = EmptyResult
    /\ rounds' = rounds + 1
    /\ pc' = "while_spots"
    /\ UNCHANGED <<inputVars, historyVars, unplaced_students, placed, not_placable,
                   still_not_placable>>

\* match_students_to_multiple_categories, lines 106 and 148
MultiReturn ==
    /\ pc = "while_spots"
    /\ ~spots_left(spots_available, previous_spots_available)
    /\ pc' = "done"
    /\ UNCHANGED <<inputVars, historyVars, multiVars, new_match_result, unplaced_students,
                   placed, not_placable, still_not_placable>>

\* the steps of one match_students call
Next ==
    \/ DrawOrder
    \/ PlaceStudents
    \/ TruncateCategories
    \/ AssignRandomSort
    \/ AssignRandomStep
    \/ MatchStudentsReturn

\* the steps of match_students_to_multiple_categories and of the
\* match_students calls it makes
NextMulti ==
    \/ WhileSpots
    \/ DrawOrder
    \/ PlaceStudents
    \/ TruncateCategories
    \/ AssignRandomSort
    \/ AssignRandomStep
    \/ MatchStudentsReturn
    \/ MergeRound
    \/ MultiReturn

\* match_students
Spec == Init /\ [][Next]_vars

\* match_students_to_multiple_categories
MultiSpec == InitMulti /\ [][NextMulti]_vars

\* The code is sequential and has no suspension point: a step that can be
\* taken is taken.
FairSpec == Spec /\ WF_vars(Next)

FairMultiSpec == MultiSpec /\ WF_vars(NextMulti)

\* match_students on the example data, every shuffle and residual choice
ExampleSpec == InitExample /\ [][Next]_vars

\* ================================================================= claims
ExcludeSet(s) == {s.exclude[i] : i \in 1..Len(s.exclude)}

\* how often a student name occurs in a MatchResult
PlacedOccurrences(result, name) ==
    Cardinality(UNION {{<<k, i>> : i \in {j \in 1..Len(result.placed[k]) :
                                            result.placed[k][j].name = name}} :
                       k \in DOMAIN result.placed})

NotPlacableOccurrences(result, name) ==
    Cardinality({i \in 1..Len(result.not_placable) :
                    result.not_placable[i].name = name})

InputNames == Names(in_students)

ResultNames(result) ==
    Names(result.not_placable) \cup
    UNION {Names(result.placed[k]) : k \in DOMAIN result.placed}

\* the state of a match_students call on the caller's input, after it returned
SingleReturned == mode = "match_students" /\ pc = "done"

\* C1: when match_students has returned, every input student occurs exactly
\* once in the result, counting all placed lists and not_placable together,
\* and the result holds no other student.
C1_Conservation ==
    SingleReturned =>
        /\ \A n \in InputNames :
              PlacedOccurrences(new_match_result, n) +
              NotPlacableOccurrences(new_match_result, n) = 1
        /\ ResultNames(new_match_result) \subseteq InputNames

C1_Witness ==
    /\ SingleReturned
    /\ new_match_result.not_placable # <<>>
    /\ \E k \in DOMAIN new_match_result.placed :
          new_match_result.placed[k] # <<>>
    /\ \E i \in 1..Len(in_students) :
          /\ in_students[i].preferences # <<>>
          /\ Head(in_students[i].preferences) \in ExcludeSet(in_students[i])

CapacityRespected(pl, cats) ==
    \A i \in 1..Len(cats) :
        Len(GetOrEmpty(pl, cats[i].name)) <= cats[i].max_placements

\* C2: at the end of every iteration of the deferred-acceptance loop (the
\* loop test after truncate_categories) and in the result match_students
\* returns, no category of the category vector holds more students than its
\* max_placements.
C2_CapacityRespect ==
    /\ pc = "while_unplaced" => CapacityRespected(placed, categories)
    /\ SingleReturned => CapacityRespected(new_match_result.placed, in_categories)

\* an iteration that evicted somebody has just ended
C2_Witness ==
    /\ pc = "while_unplaced"
    /\ unplaced_students # <<>>
    /\ \E i \in 1..Len(categories) :
          /\ categories[i].max_placements > 0
          /\ Len(GetOrEmpty(placed, categories[i].name)) =
                categories[i].max_placements

\* no student of `studs` is listed under a category it excludes
ExclusionRespected(pl, studs) ==
    \A k \in DOMAIN pl : \A i \in 1..Len(pl[k]) : \A j \in 1..Len(studs) :
        studs[j].name = pl[k][i].name => k \notin ExcludeSet(studs[j])

\* C3: the result of every match_students call lists no student under a
\* category of the exclude vector the call was given, and the aggregate
\* result of match_students_to_multiple_categories lists no student under a
\* category of the exclude vector the caller supplied.
C3_ExclusionRespect ==
    /\ pc = "merge" => ExclusionRespected(new_match_result.placed, students)
    /\ ExclusionRespected(match_result.placed, in_students)

\* a student that excludes Cooking got Reading although Cooking has room left
C3_Witness ==
    /\ pc = "done"
    /\ \E j \in 1..Len(in_students) :
          /\ "Cooking" \in ExcludeSet(in_students[j])
          /\ in_students[j].name \in Names(GetOrEmpty(match_result.placed, "Reading"))
    /\ categories[1].max_placements > 0

\* the state match_students returns from: `placed` and `still_not_placable`
\* still carry each student's `order`
AboutToReturn ==
    mode = "match_students" /\ pc = "assign_for" /\ not_placable = <<>>

Elements(vec) == {vec[i] : i \in 1..Len(vec)}

OrderedStudents ==
    Elements(still_not_placable) \cup
    UNION {Elements(placed[k]) : k \in DOMAIN placed}

OriginalPreferences(name) ==
    in_students[CHOOSE j \in 1..Len(in_students) :
                    in_students[j].name = name].preferences

FirstIndex(vec, x) == CHOOSE i \in 1..Len(vec) :
    vec[i] = x /\ \A j \in 1..(i - 1) : vec[j] # x

HeldIn(a, k) == a.name \in Names(GetOrEmpty(placed, k))

\* student a has reason to envy the occupants (or the free seats) of S
Envies(a, S) ==
    LET prefs == OriginalPreferences(a.name) IN
    /\ Contains(prefs, S)
    /\ ~Contains(a.exclude, S)
    /\ ~HeldIn(a, S)
    /\ \A i \in 1..(FirstIndex(prefs, S) - 1) : ~HeldIn(a, prefs[i])
    /\ \/ \E b \in Elements(GetOrEmpty(placed, S)) : b.order > a.order
       \/ \E i \in 1..Len(categories) :
             /\ categories[i].name = S
             /\ Len(GetOrEmpty(placed, S)) < categories[i].max_placements

\* C4: in the result of match_students no student envies a category: there is
\* no student a and category S of a's original preferences, not excluded by
\* a, such that a holds neither S nor a category it ranks before S while S
\* holds a student of worse order than a or has a free place.
C4_EnvyFree ==
    AboutToReturn =>
        \A a \in OrderedStudents : \A S \in PreferenceNames : ~Envies(a, S)

MultiReturned ==
    mode = "match_students_to_multiple_categories" /\ pc = "done"

\* C5: when match_students_to_multiple_categories has returned, every input
\* student is in some placed list or in not_placable of the aggregate
\* result, and none is in both.
C5_MultiConservation ==
    MultiReturned =>
        \A n \in InputNames :
            /\ \/ PlacedOccurrences(match_result, n) > 0
               \/ NotPlacableOccurrences(match_result, n) > 0
            /\ ~ /\ PlacedOccurrences(match_result, n) > 0
                 /\ NotPlacableOccurrences(match_result, n) > 0

NoDoublePlacement(result) ==
    \A k \in DOMAIN result.placed :
        \A i, j \in 1..Len(result.placed[k]) :
            result.placed[k][i].name = result.placed[k][j].name => i = j

\* C6: in every step of match_students_to_multiple_categories each student's
\* exclude vector only grows (the old vector is a prefix of the new one), and
\* the aggregate result never lists a student twice under one category.
C6_ExclusionGrowth ==
    [][/\ \A j \in 1..Len(students) :
            /\ Len(students'[j].exclude) >= Len(students[j].exclude)
            /\ SubSeq(students'[j].exclude, 1, Len(students[j].exclude)) =
                 students[j].exclude
       /\ NoDoublePlacement(match_result')]_vars

\* after two rounds some student holds both categories and excludes both
C6_Witness ==
    /\ MultiReturned
    /\ rounds >= 2
    /\ \E j \in 1..Len(students) :
          /\ in_students[j].exclude = <<>>
          /\ ExcludeSet(students[j]) = {"Cooking", "Reading"}
          /\ students[j].name \in Names(GetOrEmpty(match_result.placed, "Cooking"))
          /\ students[j].name \in Names(GetOrEmpty(match_result.placed, "Reading"))

\* C7: in every state of match_students_to_multiple_categories, so after
\* every round, each category's remaining max_placements is not negative and
\* adds up with the length of its aggregate placed list to the max_placements
\* the caller gave it.
C7_CapacityAccounting ==
    mode = "match_students_to_multiple_categories" =>
        \A i \in 1..Len(categories) :
            /\ categories[i].max_placements >= 0
            /\ categories[i].max_placements +
                 Len(GetOrEmpty(match_result.placed, categories[i].name)) =
                 in_categories[i].max_placements

C7_Witness ==
    /\ pc = "while_spots"
    /\ rounds >= 2
    /\ \E i \in 1..Len(categories) :
          /\ categories[i].max_placements > 0
          /\ categories[i].max_placements < in_categories[i].max_placements

\* C8: every match_students call returns: the deferred-acceptance loop
\* reaches an empty unplaced_students and the call reaches its end.
C8_Termination == <>(pc = "done")

\* a call on an input with a category of capacity 0 returned with a student
\* that used up both its preferences and holds the second one
C8_Witness ==
    /\ SingleReturned
    /\ \E i \in 1..Len(in_categories) : in_categories[i].max_placements = 0
    /\ \E k \in DOMAIN new_match_result.placed :
          \E i \in 1..Len(new_match_result.placed[k]) :
              LET s == new_match_result.placed[k][i] IN
              /\ Len(OriginalPreferences(s.name)) = 2
              /\ s.preferences = <<>>
              /\ OriginalPreferences(s.name)[2] = k

TotalRemaining == SumPlacements(categories)

RoundStarts == pc = "while_spots" /\ pc' = "draw_order"

RoundEnds == pc = "merge" /\ pc' = "while_spots"

\* C9: match_students_to_multiple_categories returns; a round starts only
\* while the total remaining capacity is positive and, after the first
\* round, only if the round before it reduced that total; no round raises
\* the total; and the number of rounds is at most the total capacity the
\* caller supplied.
C9_MultiTermination ==
    /\ <>(pc = "done")
    /\ [][(RoundStarts =>
              /\ TotalRemaining > 0
              /\ (rounds > 0 => TotalRemaining < previous_spots_available))
          /\
          (RoundEnds =>
              /\ previous_spots_available' = TotalRemaining
              /\ SumPlacements(categories') <= TotalRemaining)]_vars
    /\ [](rounds <= SumPlacements(in_categories))

\* a call that ended because its last round placed nobody, with capacity left
C9_Witness ==
    /\ MultiReturned
    /\ rounds >= 2
    /\ TotalRemaining > 0
    /\ previous_spots_available = spots_available

\* the deferred-acceptance loop of a match_students call on the caller's input
InDeferredAcceptance ==
    mode = "match_students" /\ pc \in {"while_unplaced", "truncate"}

\* C11: in a match_students call every student the deferred-acceptance loop
\* holds under a category S has S in its original preference queue (any
\* other placement is made by assign_random), and every student that waits
\* in the pool handed to assign_random has an empty preference queue.
C11_PreferenceExhaustion ==
    /\ InDeferredAcceptance =>
          \A k \in DOMAIN placed : \A s \in Elements(placed[k]) :
              Contains(OriginalPreferences(s.name), k)
    /\ mode = "match_students" =>
          \A s \in Elements(not_placable) : s.preferences = <<>>

\* category c is not excluded by student s and holds fewer than its capacity
HasFreePlaceFor(s, c, pl) ==
    /\ c.name \notin ExcludeSet(s)
    /\ Len(GetOrEmpty(pl, c.name)) < c.max_placements

\* assign_random is about to handle the front student of the pool
ResidualTurn ==
    mode = "match_students" /\ pc = "assign_for" /\ not_placable # <<>>

\* C12: every student in not_placable of the result of match_students finds
\* every category of the category vector that it does not exclude filled
\* exactly to max_placements; a student whose preference queue is empty is
\* never held by the deferred-acceptance loop; and the student assign_random
\* handles ends in still_not_placable exactly when no category it does not
\* exclude has a free place at that moment.
C12_NoWastedSeat ==
    [][/\ (mode' = "match_students" /\ pc' = "done") =>
             \A s \in Elements(new_match_result'.not_placable) :
                 \A i \in 1..Len(in_categories) :
                     in_categories[i].name \notin ExcludeSet(s) =>
                         Len(GetOrEmpty(new_match_result'.placed,
                                        in_categories[i].name)) =
                             in_categories[i].max_placements
       /\ InDeferredAcceptance' =>
             \A k \in DOMAIN placed' : \A s \in Elements(placed'[k]) :
                 OriginalPreferences(s.name) # <<>>
       /\ ResidualTurn =>
             (Head(not_placable).name \in Names(still_not_placable')
              <=> ~\E i \in 1..Len(categories) :
                      HasFreePlaceFor(Head(not_placable), categories[i], placed))
      ]_vars

\* a student without preferences stays unplaced while a category it does not
\* exclude has places, all of them taken
C12_Witness ==
    /\ SingleReturned
    /\ \E s \in Elements(new_match_result.not_placable) :
          /\ s.preferences = <<>>
          /\ OriginalPreferences(s.name) = <<>>
          /\ \E i \in 1..Len(in_categories) :
                /\ in_categories[i].name \notin ExcludeSet(s)
                /\ in_categories[i].max_placements > 0
                /\ Len(GetOrEmpty(new_match_result.placed,
                                   in_categories[i].name)) =
                       in_categories[i].max_placements

NameSeq(vec) == [i \in 1..Len(vec) |-> vec[i].name]

\* the order draw_order gave to the student called name
OrderOf(name) == (CHOOSE s \in OrderedStudents : s.name = name).order

\* the shuffle produced Kate(0) < Harry(1) < Bert(2) < Suze(3) < Lisa(4)
ExampleOrderDrawn ==
    /\ AboutToReturn
    /\ OrderOf("Kate") = 0
    /\ OrderOf("Harry") = 1
    /\ OrderOf("Bert") = 2
    /\ OrderOf("Suze") = 3
    /\ OrderOf("Lisa") = 4

\* C13 as stated: on the example data with order Kate(0) < Harry(1) <
\* Bert(2) < Suze(3) < Lisa(4), match_students returns Walking = [Suze],
\* Reading = [Kate, Harry], Cooking = Bert and the remaining students, and
\* an empty not_placable, whatever assign_random chooses.
C13_SpecExample ==
    ExampleOrderDrawn =>
        /\ NameSeq(GetOrEmpty(placed, "Walking")) = <<"Suze">>
        /\ NameSeq(GetOrEmpty(placed, "Reading")) = <<"Kate", "Harry">>
        /\ Names(GetOrEmpty(placed, "Cooking")) = {"Bert", "Lisa"}
        /\ still_not_placable = <<>>

\* C13, amended: with order Kate(0) < Harry(1) < Bert(2) < Suze(3) < Lisa(4)
\* match_students returns Walking = [Kate], Cooking = [Bert, Suze] and
\* Reading = [Harry], with Lisa appended to Cooking or to Reading, and an
\* empty not_placable, whatever assign_random chooses.  The result Walking =
\* [Suze], Reading = [Kate, Harry], Cooking = [Bert, Lisa] is returned for
\* every order that puts Suze before Kate and Harry, and Harry before Lisa.
C13_ExampleOutcome ==
    /\ ExampleOrderDrawn =>
          /\ NameSeq(GetOrEmpty(placed, "Walking")) = <<"Kate">>
          /\ \/ /\ NameSeq(GetOrEmpty(placed, "Cooking")) =
                      <<"Bert", "Suze", "Lisa">>
                /\ NameSeq(GetOrEmpty(placed, "Reading")) = <<"Harry">>
             \/ /\ NameSeq(GetOrEmpty(placed, "Cooking")) = <<"Bert", "Suze">>
                /\ NameSeq(GetOrEmpty(placed, "Reading")) = <<"Harry", "Lisa">>
          /\ still_not_placable = <<>>
    /\ (/\ AboutToReturn
        /\ mode = "match_students"
        /\ in_students = ExampleStudents
        /\ OrderOf("Suze") < OrderOf("Kate")
        /\ OrderOf("Suze") < OrderOf("Harry")
        /\ OrderOf("Harry") < OrderOf("Lisa")) =>
          /\ NameSeq(GetOrEmpty(placed, "Walking")) = <<"Suze">>
          /\ NameSeq(GetOrEmpty(placed, "Reading")) = <<"Kate", "Harry">>
          /\ NameSeq(GetOrEmpty(placed, "Cooking")) = <<"Bert", "Lisa">>
          /\ still_not_placable = <<>>

\* the stated order was drawn and assign_random sent Lisa to Reading
C13_Witness ==
    /\ ExampleOrderDrawn
    /\ NameSeq(GetOrEmpty(placed, "Reading")) = <<"Harry", "Lisa">>

\* every preference of every input student names a category of the vector
ListedOnly ==
    \A i \in 1..Len(in_students) :
        \A j \in 1..Len(in_students[i].preferences) :
            in_students[i].preferences[j] \in Names(in_categories)

\* no category with places left lacks a student that does not exclude it
Saturated ==
    \A i \in 1..Len(in_students) : \A c \in 1..Len(categories) :
        (/\ categories[c].max_placements > 0
         /\ categories[c].name \notin ExcludeSet(in_students[i]))
        => in_students[i].name \in
               Names(GetOrEmpty(match_result.placed, categories[c].name))

AmpleCapacity ==
    \A c \in 1..Len(in_categories) :
        in_categories[c].max_placements >= Len(in_students)

PlacedWhereverAllowed ==
    \A i \in 1..Len(in_students) : \A c \in 1..Len(in_categories) :
        in_categories[c].name \notin ExcludeSet(in_students[i])
        => in_students[i].name \in
               Names(GetOrEmpty(match_result.placed, in_categories[c].name))

ExcludesEverything(s) == Names(in_categories) \subseteq ExcludeSet(s)

\* C14 as stated: when match_students_to_multiple_categories has returned on
\* an input whose preferences name only categories of the vector, no
\* category with remaining capacity lacks a student that does not exclude
\* it; and when every capacity is at least the number of students, every
\* student is in every category it does not exclude and not_placable is
\* empty.
C14_Saturation ==
    (MultiReturned /\ ListedOnly) =>
        /\ Saturated
        /\ AmpleCapacity =>
              /\ PlacedWhereverAllowed
              /\ match_result.not_placable = <<>>

\* C14, amended: as C14, but with ample capacity not_placable holds exactly
\* the students that exclude every category of the vector.
C14_SaturationButExcluded ==
    (MultiReturned /\ ListedOnly) =>
        /\ Saturated
        /\ AmpleCapacity =>
              /\ PlacedWhereverAllowed
              /\ Names(match_result.not_placable) =
                    {in_students[i].name : i \in
                        {j \in 1..Len(in_students) :
                            ExcludesEverything(in_students[j])}}

\* ample capacity, a second round, one student in both categories and one
\* that excludes both
C14_Witness ==
    /\ MultiReturned
    /\ ListedOnly
    /\ AmpleCapacity
    /\ rounds >= 2
    /\ \E i \in 1..Len(in_students) :
          /\ in_students[i].exclude = <<>>
          /\ \A c \in 1..Len(in_categories) :
                in_students[i].name \in
                    Names(GetOrEmpty(match_result.placed, in_categories[c].name))
    /\ \E i \in 1..Len(in_students) : ExcludesEverything(in_students[i])

\* C15: the not_placable list of the aggregate result is set once, by the
\* merge that ends the first round, to the not_placable list that round
\* returned; no other step changes it.
C15_NotPlacableFromFirstRound ==
    [][IF RoundEnds /\ rounds = 0
       THEN match_result'.not_placable = new_match_result.not_placable
       ELSE match_result'.not_placable = match_result.not_placable]_vars

\* a call of at least two rounds whose first round left somebody unplaced
\* and placed somebody else
C15_Witness ==
    /\ MultiReturned
    /\ rounds >= 2
    /\ match_result.not_placable # <<>>
    /\ \E k \in DOMAIN match_result.placed : match_result.placed[k] # <<>>

\* C16: no step of match_students_to_multiple_categories changes the
\* category vector the caller passed; the capacities are decremented in the
\* clone the function works on.
C16_CallerCategoriesUnchanged ==
    [][in_categories' = in_categories]_vars

\* the call returned with the clone decremented and the caller's vector
\* as it was passed
C16_Witness ==
    /\ MultiReturned
    /\ SumPlacements(categories) < SumPlacements(in_categories)
    /\ \E v \in CategoryVectors : in_categories = v

\* place_students has just run on the batch unplaced_students
PlaceStep == pc = "while_unplaced" /\ pc' = "truncate"

Popped(s) == [s EXCEPT !.preferences = Tail(@)]

HeldCount(pl) ==
    Cardinality(UNION {{<<k, i>> : i \in 1..Len(pl[k])} : k \in DOMAIN pl})

HeldNames(pl) == UNION {Names(pl[k]) : k \in DOMAIN pl}

IsPrefix(short, long) ==
    /\ Len(short) <= Len(long)
    /\ \A i \in 1..Len(short) : long[i] = short[i]

\* C17: a call of place_students pops the front preference of every student
\* of the batch; a student whose popped category is in its exclude vector is
\* appended to the pool at once, whatever is left in its queue; a student
\* with an empty queue is appended to the pool; every other student is
\* appended to the held list of the popped category, full or not.  Nobody
\* is removed from a list, and a student in the pool keeps the queue it
\* entered with until match_students returns.
C17_PlacementStep ==
    [][/\ PlaceStep =>
             /\ \A s \in Elements(unplaced_students) :
                   IF s.preferences = <<>>
                   THEN /\ s \in Elements(not_placable')
                        /\ s.name \notin HeldNames(placed')
                   ELSE IF Head(s.preferences) \in ExcludeSet(s)
                   THEN /\ Popped(s) \in Elements(not_placable')
                        /\ s.name \notin HeldNames(placed')
                   ELSE /\ Popped(s) \in Elements(
                               GetOrEmpty(placed', Head(s.preferences)))
                        /\ s.name \notin Names(not_placable')
             /\ \A k \in DOMAIN placed :
                   IsPrefix(placed[k], GetOrEmpty(placed', k))
             /\ HeldCount(placed') + Len(not_placable') =
                   HeldCount(placed) + Len(not_placable) +
                   Len(unplaced_students)
       /\ (pc \in {"while_unplaced", "truncate"} /\
           pc' \in {"while_unplaced", "truncate"}) =>
             IsPrefix(not_placable, not_placable')
       /\ (pc = "assign_for" /\ pc' = "assign_for") =>
             Head(not_placable) \in
                 Elements(still_not_placable') \cup
                 UNION {Elements(placed'[k]) : k \in DOMAIN placed'}
      ]_vars

\* place_students filled a category beyond its capacity and sent a student
\* to the pool that still has a preference in its queue
C17_Witness ==
    /\ pc = "truncate"
    /\ \E i \in 1..Len(categories) :
          Len(GetOrEmpty(placed, categories[i].name)) >
              categories[i].max_placements
    /\ \E s \in Elements(not_placable) : s.preferences # <<>>

\* truncate_categories has just run
TruncateStep == pc = "truncate" /\ pc' = "while_unplaced"

Ascending(vec) ==
    \A i, j \in 1..Len(vec) : i < j => vec[i].order < vec[j].order

\* C18: truncate_categories leaves in every category that held more than
\* max_placements students exactly max_placements of them, those with the
\* lowest order, sorted by ascending order; every student it removes has a
\* higher order than every student it keeps; and the removed students, and
\* no others, are the next batch of unplaced students.
C18_EvictionRule ==
    [][TruncateStep =>
         /\ \A i \in 1..Len(categories) :
               LET old == GetOrEmpty(placed, categories[i].name)
                   new == GetOrEmpty(placed', categories[i].name)
                   evicted == Elements(old) \ Elements(new)
               IN  Len(old) > categories[i].max_placements =>
                     /\ Len(new) = categories[i].max_placements
                     /\ Elements(new) \subseteq Elements(old)
                     /\ Ascending(new)
                     /\ Cardinality(evicted) =
                           Len(old) - categories[i].max_placements
                     /\ \A e \in evicted : \A x \in Elements(new) :
                           e.order > x.order
         /\ Elements(unplaced_students') =
               UNION {Elements(placed[k]) \ Elements(placed'[k]) :
                      k \in DOMAIN placed}
         /\ Len(unplaced_students') = HeldCount(placed) - HeldCount(placed')
      ]_vars

\* a student on its second proposal keeps the only place of a category and
\* the student that held it since its first proposal, of higher order, is
\* the next batch
C18_Witness ==
    /\ mode = "match_students"
    /\ pc = "while_unplaced"
    /\ \E i \in 1..Len(categories) :
          LET held == GetOrEmpty(placed, categories[i].name) IN
          /\ Len(held) = categories[i].max_placements
          /\ \E x \in Elements(held) : \E e \in Elements(unplaced_students) :
                /\ e.order > x.order
                /\ Len(OriginalPreferences(x.name)) - Len(x.preferences) = 2
                /\ Len(OriginalPreferences(e.name)) - Len(e.preferences) = 1
                /\ Head(OriginalPreferences(e.name)) = categories[i].name

\* the held list under name k is within the capacity of every category of
\* the vector that bears that name
WithinCapacity(k) ==
    \A i \in 1..Len(categories) :
        categories[i].name = k =>
            Len(placed[k]) <= categories[i].max_placements

\* C19: truncate_categories leaves the list of every category that holds at
\* most max_placements students as it is, same students in the same order
\* and not sorted, and puts none of them into the next batch.
C19_TruncationFrame ==
    [][TruncateStep =>
         \A k \in DOMAIN placed :
             WithinCapacity(k) =>
                 /\ k \in DOMAIN placed'
                 /\ placed'[k] = placed[k]
                 /\ Elements(placed[k]) \cap Elements(unplaced_students') = {}
      ]_vars

\* after truncate_categories a category within its capacity still holds its
\* students in the order they arrived, which is not the order of their ranks
C19_Witness ==
    /\ mode = "match_students"
    /\ pc = "while_unplaced"
    /\ \E i \in 1..Len(categories) :
          LET held == GetOrEmpty(placed, categories[i].name) IN
          /\ Len(held) >= 2
          /\ Len(held) <= categories[i].max_placements
          /\ ~Ascending(held)

\* one pass of the for loop of assign_random
ResidualStep == pc = "assign_for" /\ pc' = "assign_for"

\* C20: assign_random handles the pool in ascending order: the student it
\* handles has a higher order than every student it already left unplaced
\* and a lower order than every student still waiting; a placement it makes
\* stays within max_placements, counting the placements made before; and
\* when it places a student in a category S, every student it left unplaced
\* before, so every unplaced student of lower order, excludes S.
C20_ResidualPriority ==
    [][/\ (pc = "while_unplaced" /\ pc' = "assign_for") =>
             /\ Ascending(not_placable')
             /\ Elements(not_placable') = Elements(not_placable)
       /\ ResidualStep =>
             LET b == Head(not_placable) IN
             /\ \A a \in Elements(still_not_placable) : a.order < b.order
             /\ \A x \in Elements(Tail(not_placable)) : b.order < x.order
             /\ IsPrefix(still_not_placable, still_not_placable')
             /\ \A i \in 1..Len(categories) :
                   LET S == categories[i].name IN
                   b \in Elements(GetOrEmpty(placed', S)) =>
                       /\ Len(placed'[S]) <= categories[i].max_placements
                       /\ \A a \in Elements(still_not_placable) :
                             S \in ExcludeSet(a)
      ]_vars

\* a student was left unplaced and a student of higher order was then put
\* into a category it never asked for, one the unplaced student excludes
C20_Witness ==
    /\ mode = "match_students"
    /\ pc = "assign_for"
    /\ \E a \in Elements(still_not_placable) :
          \E i \in 1..Len(categories) :
              \E b \in Elements(GetOrEmpty(placed, categories[i].name)) :
                  /\ b.order > a.order
                  /\ ~Contains(OriginalPreferences(b.name), categories[i].name)
                  /\ categories[i].name \in ExcludeSet(a)

\* C21: assign_random calls choose on the rng only with a candidate set it
\* has found to be non-empty: no choose call of a match_students call is made
\* on an empty set of open categories.
C21_ChooseOnlyFromCandidates ==
    \A i \in 1..Len(rng_calls) :
        rng_calls[i].op = "choose" => rng_calls[i].candidates > 0

\* the rng calls that produce a random outcome: the shuffle and every choose
\* that has a candidate
Draws(calls) ==
    SelectSeq(calls, LAMBDA c : c.op = "shuffle" \/ c.candidates > 0)

CandidateCount(s) ==
    Cardinality({i \in 1..Len(categories) :
                    HasFreePlaceFor(s, categories[i], placed)})

\* C22: in one match_students call the first draw from the rng is the
\* shuffle of draw_order; place_students, truncate_categories and the sort
\* of the pool draw nothing; every later draw is a choose of assign_random,
\* made after the loop has ended, one for each pooled student that has a
\* candidate category and none for the others, in ascending order of the
\* students.
C22_RandomnessOrder ==
    [][/\ pc = "draw_order" =>
             /\ rng_calls = <<>>
             /\ Draws(rng_calls') =
                   <<[op |-> "shuffle", candidates |-> Len(students)]>>
       /\ (PlaceStep \/ TruncateStep \/
           (pc = "while_unplaced" /\ pc' = "assign_for")) =>
             rng_calls' = rng_calls
       /\ ResidualStep =>
             LET b == Head(not_placable) IN
             /\ unplaced_students = <<>>
             /\ \A x \in Elements(Tail(not_placable)) : b.order < x.order
             /\ Draws(rng_calls') =
                   IF CandidateCount(b) > 0
                   THEN Append(Draws(rng_calls),
                               [op |-> "choose",
                                candidates |-> CandidateCount(b)])
                   ELSE Draws(rng_calls)
       /\ \A i \in 1..Len(rng_calls') :
             rng_calls'[i].op = IF i = 1 THEN "shuffle" ELSE "choose"
      ]_vars

\* a call in which assign_random drew for one student and had no candidate
\* for another
C22_Witness ==
    /\ AboutToReturn
    /\ Len(Draws(rng_calls)) >= 2
    /\ Len(rng_calls) > Len(Draws(rng_calls))

\* every OrderedStudent of the running match_students call
RankedStudents ==
    Elements(unplaced_students) \cup Elements(not_placable) \cup OrderedStudents

RankMap == {<<s.name, s.order>> : s \in RankedStudents}

InCall == pc \in {"while_unplaced", "truncate", "assign_for"}

\* C23: draw_order gives the n students the orders 0..n-1, each order to one
\* student and each student one order, the order being the position in the
\* shuffled vector, which holds the students it was given; and no later step
\* of the same match_students call changes the order of a student.
C23_RanksTotalAndStable ==
    [][/\ pc = "draw_order" =>
             /\ Len(unplaced_students') = Len(students)
             /\ \A i \in 1..Len(unplaced_students') :
                   unplaced_students'[i].order = i - 1
             /\ {StudentFrom(unplaced_students'[i]) :
                    i \in 1..Len(unplaced_students')} = Elements(students)
       /\ InCall' =>
             /\ {r[2] : r \in RankMap'} = 0..(Len(students) - 1)
             /\ {r[1] : r \in RankMap'} = Names(students)
             /\ Cardinality(RankMap') = Len(students)
       /\ (InCall /\ InCall') => RankMap' = RankMap
      ]_vars

\* the shuffle put student 1 behind student 2, and the call went through an
\* eviction and the residual pass
C23_Witness ==
    /\ AboutToReturn
    /\ evictions # {}
    /\ <<1, 1>> \in RankMap
    /\ <<2, 0>> \in RankMap

\* the students of the batch that place_students appends to a held list
Proposers ==
    {s \in Elements(unplaced_students) :
        /\ s.preferences # <<>>
        /\ Head(s.preferences) \notin ExcludeSet(s)}

WasEvicted(name, category) ==
    [name |-> name, category |-> category] \in evictions

Occurrences(vec, x) == Cardinality({i \in 1..Len(vec) : vec[i] = x})

\* C24 as stated: place_students never appends a student to the held list
\* of a category that truncate_categories removed it from earlier in the
\* same match_students call.
C24_NoReturnAfterEviction ==
    [][PlaceStep =>
         \A s \in Proposers : ~WasEvicted(s.name, Head(s.preferences))]_vars

\* C24, amended: place_students appends a student again to the held list of
\* a category it was removed from only when the student's original
\* preference queue names that category more than once; a student whose
\* queue names the category once is never appended to it again.
C24_ReturnOnlyByRepeatedPreference ==
    [][PlaceStep =>
         \A s \in Proposers :
             WasEvicted(s.name, Head(s.preferences)) =>
                 Occurrences(OriginalPreferences(s.name),
                             Head(s.preferences)) >= 2]_vars

\* a student is back in the list of a category it was removed from, and
\* another evicted student has moved on to a different category
C24_Witness ==
    /\ mode = "match_students"
    /\ pc = "truncate"
    /\ \E e \in evictions : e.name \in Names(GetOrEmpty(placed, e.category))
    /\ \E e \in evictions :
          \E k \in DOMAIN placed :
              k # e.category /\ e.name \in Names(placed[k])

\* the preference entries left in the queues of all students of the call
TotalPreferences ==
    Cardinality(UNION {{<<s.name, i>> : i \in 1..Len(s.preferences)} :
                       s \in RankedStudents})

\* C25 as stated: every iteration of the loop of match_students lowers the
\* total number of preference entries left in the students' queues.
C25_PreferencesStrictlyDecrease ==
    [][PlaceStep => TotalPreferences' < TotalPreferences]_vars

\* C25, amended: the total number of preference entries left never grows;
\* place_students lowers it by the number of students of its batch whose
\* queue is not empty and truncate_categories leaves it as it is, so an
\* iteration lowers it exactly when its batch has such a student; an
\* iteration that appends nobody to a held list evicts nobody and is the
\* last one.
C25_PreferencesDrain ==
    [][/\ PlaceStep =>
             TotalPreferences' =
                 TotalPreferences -
                 Cardinality({s \in Elements(unplaced_students) :
                                 s.preferences # <<>>})
       /\ TruncateStep =>
             /\ TotalPreferences' = TotalPreferences
             /\ placed = previous_placed => unplaced_students' = <<>>
      ]_vars

\* an iteration whose batch was a student evicted at its last preference:
\* it went to the pool, nothing was popped and nobody was appended
C25_Witness ==
    /\ mode = "match_students"
    /\ pc = "truncate"
    /\ placed = previous_placed
    /\ TotalPreferences = 0
    /\ \E s \in Elements(not_placable) :
          LET prefs == OriginalPreferences(s.name) IN
          /\ prefs # <<>>
          /\ WasEvicted(s.name, prefs[Len(prefs)])
          /\ prefs[Len(prefs)] \notin ExcludeSet(s)

\* a match_students call of round 2 or later is about to start
LaterRoundStarts ==
    /\ mode = "match_students_to_multiple_categories"
    /\ pc = "draw_order"
    /\ rounds >= 1

\* C26 as stated: the student vector match_students_to_multiple_categories
\* passes to match_students in round 2 and later holds no student that was
\* not placable in round 1.
C26_UnplacedNotPassedAgain ==
    LaterRoundStarts =>
        Names(students) \cap Names(match_result.not_placable) = {}

\* C26, amended: every round is passed every student of the caller's vector,
\* those not placable in round 1 included; such a student is not placable
\* again in every later round and is in no placed list of the aggregate
\* result.
C26_UnplacedStayUnplaced ==
    /\ mode = "match_students_to_multiple_categories" =>
          /\ Names(students) = InputNames
          /\ Names(match_result.not_placable) \cap
                HeldNames(match_result.placed) = {}
    /\ (pc = "merge" /\ rounds >= 1) =>
          Names(match_result.not_placable) \subseteq
              Names(new_match_result.not_placable)

\* round 2 has returned, with a student that round 1 left unplaced, and has
\* placed another student
C26_Witness ==
    /\ pc = "merge"
    /\ rounds >= 1
    /\ match_result.not_placable # <<>>
    /\ \E k \in DOMAIN new_match_result.placed :
          /\ k \in Names(categories)
          /\ new_match_result.placed[k] # <<>>

OrderByName(name) == (CHOOSE r \in RankMap : r[1] = name)[2]

CapacityOf(k) ==
    categories[CHOOSE i \in 1..Len(categories) :
                   categories[i].name = k].max_placements

\* every category a student was evicted from is full of students that the
\* shuffle put before that student
EvictionsJustified ==
    \A e \in evictions :
        LET held == GetOrEmpty(placed, e.category) IN
        /\ Len(held) = CapacityOf(e.category)
        /\ \A x \in Elements(held) : x.order < OrderByName(e.name)

\* C27: once truncate_categories has removed a student from a category, that
\* category holds exactly max_placements students, all of lower order than
\* the removed one, at the end of every later iteration, during the residual
\* pass and in the result; a category that is full at the end of an
\* iteration is full at the end of the next one, with no student of higher
\* order than the highest it held, and assign_random leaves it as it is.
C27_EvictionFinal ==
    [][/\ (mode' = "match_students" /\
           pc' \in {"while_unplaced", "assign_for"}) => EvictionsJustified'
       /\ TruncateStep =>
             \A i \in 1..Len(categories) :
                 LET before == GetOrEmpty(previous_placed, categories[i].name)
                     after == GetOrEmpty(placed', categories[i].name)
                 IN  Len(before) = categories[i].max_placements =>
                       /\ Len(after) = categories[i].max_placements
                       /\ \A x \in Elements(after) :
                             \E y \in Elements(before) : x.order <= y.order
       /\ ResidualStep =>
             \A i \in 1..Len(categories) :
                 LET held == GetOrEmpty(placed, categories[i].name) IN
                 Len(held) = categories[i].max_placements =>
                     GetOrEmpty(placed', categories[i].name) = held
      ]_vars

\* the call is about to return after an eviction from a category that has
\* places and after a residual choice
C27_Witness ==
    /\ AboutToReturn
    /\ \E e \in evictions : CapacityOf(e.category) > 0
    /\ Len(Draws(rng_calls)) >= 2

InMulti == mode = "match_students_to_multiple_categories"

\* the student already has, in the aggregate result, the category at the
\* front of its preference queue
HoldsFront(s) ==
    /\ OriginalPreferences(s.name) # <<>>
    /\ s.name \in Names(GetOrEmpty(match_result.placed,
                                   Head(OriginalPreferences(s.name))))

\* C28: match_students_to_multiple_categories keeps every student's
\* preference queue as the caller gave it and every round starts all
\* students with that queue, only the exclude vectors differ; a student that
\* already has the category at the front of its queue is sent to the pool by
\* its first proposal in every later round, with the rest of its queue
\* unused, and is never held by the deferred-acceptance loop of a later
\* round: it gets further categories from assign_random only.
C28_PreferenceReset ==
    [][InMulti =>
         /\ \A i \in 1..Len(students') :
               /\ students'[i].name = in_students[i].name
               /\ students'[i].preferences = in_students[i].preferences
         /\ pc = "draw_order" =>
               \A s \in Elements(unplaced_students') :
                   s.preferences = OriginalPreferences(s.name)
         /\ (PlaceStep /\ placed = EmptyMap /\ not_placable = <<>>) =>
               \A s \in Elements(unplaced_students) :
                   HoldsFront(s) => Popped(s) \in Elements(not_placable')
         /\ pc' \in {"while_unplaced", "truncate"} =>
               \A s \in Elements(students') :
                   HoldsFront(s) => s.name \notin HeldNames(placed')
      ]_vars

\* in a later round assign_random has placed a student that has the front
\* category of its queue from an earlier round and whose queue still holds
\* its other entry
C28_Witness ==
    /\ InMulti
    /\ pc = "assign_for"
    /\ rounds >= 1
    /\ \E k \in DOMAIN placed : \E s \in Elements(placed[k]) :
          /\ HoldsFront(s)
          /\ s.preferences # <<>>
          /\ s.preferences = Tail(OriginalPreferences(s.name))

\* the categories under which the aggregate result lists the student
CategoriesOf(name) ==
    {k \in DOMAIN match_result.placed : name \in Names(match_result.placed[k])}

\* C29: after k rounds of match_students_to_multiple_categories the
\* aggregate result lists every student under at most k categories: a round
\* adds at most one category to a student.
C29_OneCategoryPerRound ==
    /\ \A n \in InputNames : Cardinality(CategoriesOf(n)) <= rounds
    /\ pc = "merge" =>
          \A n \in InputNames : PlacedOccurrences(new_match_result, n) <= 1

\* a student has two categories after exactly two rounds
C29_Witness ==
    /\ MultiReturned
    /\ rounds = 2
    /\ \E n \in InputNames : Cardinality(CategoriesOf(n)) = 2

====
